---- MODULE Spec2Model ----
(***************************************************************************)
(* get-config: one run of src/main.rs.  A run loads a descriptor file,     *)
(* splits the key list on ',', resolves every segment (a literal, or the   *)
(* output of a child process) into a map and prints the map as dotenv or   *)
(* JSON.  Text is a sequence of one-character strings; a byte stream is a  *)
(* sequence of bytes, of which XFF is not valid UTF-8.                     *)
(***************************************************************************)
EXTENDS Integers, Sequences, FiniteSets, TLC

\* ---------------------------------------------------------------- bounds
\* The largest number of comma-separated segments of a key list.
MaxSegments == 2

\* ------------------------------------------------------------ characters
QUOTE == "\""
BSLASH == "\\"
LF == "\n"
COMMA == ","
\* A byte that cannot occur in UTF-8, and what a lossy decoding puts for it.
XFF == "0xFF"
UFFFD == "U+FFFD"

\* ---------------------------------------------------------------- Option
None == [some |-> FALSE]
Some(x) == [some |-> TRUE, val |-> x]
UnwrapOr(o, d) == IF o.some THEN o.val ELSE d

\* Result<T, Box<dyn Error>>, and a panic (unwrap on None).
Ok(v) == [ok |-> TRUE, value |-> v]
Err(kind, msg) == [ok |-> FALSE, kind |-> kind, msg |-> msg]
PanicUnwrapNone == Err("Panic", <<"called Option::unwrap() on a None value">>)

\* ------------------------------------------------------------ the inputs
\* The keys a descriptor file may hold, and the names a key list may ask for:
\* "b" is in no file.
FileKeys == {<< >>, <<"a">>}
KeyNames == FileKeys \cup {<<"b">>}

RECURSIVE Join(_)
Join(segs) ==
  IF Len(segs) = 1 THEN segs[1] ELSE segs[1] \o <<COMMA>> \o Join(Tail(segs))

KeyLists ==
  {Join(s) : s \in UNION {[1..n -> KeyNames] : n \in 1..MaxSegments}}

Formats == {"json", "dotenv", "xml", "JSON"}

\* The entries a descriptor file may hold for a key: the JSON object's fields.
LitAbsent == [source |-> "value", exec |-> None, args |-> None, value |-> None]
LitHi == [source |-> "value", exec |-> None, args |-> None, value |-> Some(<<"h", "i">>)]
CmdNoExec == [source |-> "cmd", exec |-> None, args |-> None, value |-> None]
CmdEcho == [source |-> "cmd", exec |-> Some("echo"), args |-> Some(<<"hello">>), value |-> None]
CmdNoArgs == [source |-> "cmd", exec |-> Some("date"), args |-> None, value |-> None]
BadTag == [source |-> "Cmd", exec |-> Some("echo"), args |-> None, value |-> None]

FileEntries == {LitAbsent, LitHi, CmdNoExec, CmdEcho, CmdNoArgs, BadTag}

Files ==
  {[kind |-> "unreadable"], [kind |-> "garbage"]}
  \cup {[kind |-> "object", fields |-> m] :
          m \in UNION {[S -> FileEntries] : S \in SUBSET FileKeys}}

\* What a child process may do once launched.
ChildStdouts == {<< >>, <<"h", "i", LF>>, <<QUOTE, BSLASH>>, <<XFF>>}
ChildStderrs == {<< >>, <<"e", LF>>, <<XFF>>}
ExitCodes == {0, 1}

Children ==
  {[launched |-> FALSE]}
  \cup [launched : {TRUE}, stdout : ChildStdouts, stderr : ChildStderrs,
        code : ExitCodes]
NoChild == [launched |-> FALSE]

\* ------------------------------------------------------------- the state
VARIABLES
  key_list,   \* Args.key_list
  format,     \* Args.format
  file,       \* the file at Args.source
  pc,         \* where main is
  input,      \* main's `input`: the descriptor mapping
  idx,        \* segments of the key list the loop has consumed
  map,        \* main's `map`: the resolved values
  spawned,    \* the child processes started, in order: <<exec, args>>
  child,      \* the outcome of the last child process
  resolved,   \* what get_config_value returned, call by call
  err,        \* the error the run ended with
  stdout,     \* the writes to standard output
  exit_code   \* the process's exit status

vars == <<key_list, format, file, pc, input, idx, map, spawned, child,
          resolved, err, stdout, exit_code>>

EmptyMap == [k \in {} |-> << >>]

\* ------------------------------------------------------ pure functions
\* str::split(",")
RECURSIVE Split(_)
Split(s) ==
  IF \A i \in 1..Len(s) : s[i] # COMMA
  THEN <<s>>
  ELSE LET i == CHOOSE i \in 1..Len(s) :
                  s[i] = COMMA /\ \A j \in 1..(i - 1) : s[j] # COMMA
       IN <<SubSeq(s, 1, i - 1)>> \o Split(SubSeq(s, i + 1, Len(s)))

\* serde: the Source enum under rename_all = "camelCase"
DeserializeSource(tag) ==
  CASE tag = "cmd" -> Ok("Cmd")
    [] tag = "value" -> Ok("Value")
    [] OTHER -> Err("ParseError", <<"unknown variant">>)

\* serde: one ConfigValueSource; the three Option fields may be missing.
DeserializeEntry(e) ==
  LET s == DeserializeSource(e.source)
  IN IF s.ok
     THEN Ok([source |-> s.value, exec |-> e.exec, args |-> e.args,
              value |-> e.value])
     ELSE s

parse_config(f) ==
  IF f.kind = "unreadable" THEN Err("IOError", <<"No such file or directory">>)
  ELSE IF f.kind = "garbage" THEN Err("ParseError", <<"expected value">>)
  ELSE IF \E k \in DOMAIN f.fields : ~DeserializeEntry(f.fields[k]).ok
  THEN Err("ParseError", <<"unknown variant">>)
  ELSE Ok([k \in DOMAIN f.fields |-> DeserializeEntry(f.fields[k]).value])

\* String::from_utf8 and String::from_utf8_lossy
ValidUtf8(bytes) == \A i \in 1..Len(bytes) : bytes[i] # XFF
FromUtf8Lossy(bytes) ==
  [i \in 1..Len(bytes) |-> IF bytes[i] = XFF THEN UFFFD ELSE bytes[i]]
FromUtf8(bytes) ==
  IF ValidUtf8(bytes) THEN Ok(bytes)
  ELSE Err("EncodingError", <<"invalid utf-8 sequence">>)

\* get_config_value deciding on the exit status instead of on stderr.
get_config_value_ExitStatus(config, c) ==
  IF config.source = "Cmd"
  THEN IF ~config.exec.some THEN PanicUnwrapNone
       ELSE IF ~c.launched THEN Err("ExecError", <<"No such file or directory">>)
       ELSE IF c.code # 0
       THEN Err("CommandError",
                <<"Error running command: ">> \o FromUtf8Lossy(c.stderr))
       ELSE FromUtf8(c.stdout)
  ELSE Ok(UnwrapOr(config.value, << >>))

\* get_config_value trimming the newline that ends the child's output.
TrimEnd(s) ==
  IF s # << >> /\ s[Len(s)] = LF THEN SubSeq(s, 1, Len(s) - 1) ELSE s
get_config_value_Trim(config, c) ==
  IF config.source = "Cmd"
  THEN IF ~config.exec.some THEN PanicUnwrapNone
       ELSE IF ~c.launched THEN Err("ExecError", <<"No such file or directory">>)
       ELSE IF c.stderr # << >>
       THEN Err("CommandError",
                <<"Error running command: ">> \o FromUtf8Lossy(c.stderr))
       ELSE IF ValidUtf8(c.stdout) THEN Ok(TrimEnd(c.stdout))
       ELSE FromUtf8(c.stdout)
  ELSE Ok(UnwrapOr(config.value, << >>))

\* get_config_value unwrapping the literal's value instead of defaulting it.
get_config_value_UnwrapValue(config, c) ==
  IF config.source = "Cmd"
  THEN IF ~config.exec.some THEN PanicUnwrapNone
       ELSE IF ~c.launched THEN Err("ExecError", <<"No such file or directory">>)
       ELSE IF c.stderr # << >>
       THEN Err("CommandError",
                <<"Error running command: ">> \o FromUtf8Lossy(c.stderr))
       ELSE FromUtf8(c.stdout)
  ELSE IF config.value.some THEN Ok(config.value.val) ELSE PanicUnwrapNone

\* get_config_value, given what the child process (if one is run) does.
get_config_value(config, c) ==
  IF config.source = "Cmd"
  THEN IF ~config.exec.some THEN PanicUnwrapNone
       ELSE IF ~c.launched THEN Err("ExecError", <<"No such file or directory">>)
       ELSE IF c.stderr # << >>
       THEN Err("CommandError",
                <<"Error running command: ">> \o FromUtf8Lossy(c.stderr))
       ELSE FromUtf8(c.stdout)
  ELSE Ok(UnwrapOr(config.value, << >>))

\* An insert that keeps the entry a key already has (entry().or_insert()).
Insert_KeepFirst(m, k, v) ==
  [x \in DOMAIN m \cup {k} |-> IF x \in DOMAIN m THEN m[x] ELSE v]

\* HashMap::insert
Insert(m, k, v) == [x \in DOMAIN m \cup {k} |-> IF x = k THEN v ELSE m[x]]

\* The orders a HashMap's iterator may yield its keys in.
Orders(m) ==
  {o \in [1..Cardinality(DOMAIN m) -> DOMAIN m] :
     \A i, j \in DOMAIN o : i # j => o[i] # o[j]}

RECURSIVE Concat(_)
Concat(ss) == IF ss = << >> THEN << >> ELSE ss[1] \o Concat(Tail(ss))

\* A dotenv line that quotes its value.
DotenvLine_Quoted(k, v) == k \o <<"=">> \o <<QUOTE>> \o v \o <<QUOTE>> \o <<LF>>

\* format!("{}={}\n", key, value)
DotenvLine(k, v) == k \o <<"=">> \o v \o <<LF>>

output_dotenv(m, order) ==
  Ok(Concat([i \in DOMAIN order |-> DotenvLine(order[i], m[order[i]])]))

\* A JSON writer that escapes nothing.
EscapeChar_Raw(ch) == <<ch>>

\* serde_json's string escaping
EscapeChar(ch) ==
  CASE ch = QUOTE -> <<BSLASH, QUOTE>>
    [] ch = BSLASH -> <<BSLASH, BSLASH>>
    [] ch = LF -> <<BSLASH, "n">>
    [] OTHER -> <<ch>>
JsonString(s) ==
  <<QUOTE>> \o Concat([i \in DOMAIN s |-> EscapeChar(s[i])]) \o <<QUOTE>>
JsonField(k, v) == JsonString(k) \o <<":">> \o JsonString(v)

output_json(m, order) ==
  Ok(<<"{">>
     \o Concat([i \in DOMAIN order |->
                  (IF i = 1 THEN << >> ELSE <<COMMA>>)
                  \o JsonField(order[i], m[order[i]])])
     \o <<"}">>)

\* A match on args.format that rejects the formats it does not know.
FormatOutput_Strict(fmt, m, order) ==
  CASE fmt = "json" -> output_json(m, order)
    [] fmt = "dotenv" -> output_dotenv(m, order)
    [] OTHER -> Err("SerializationError", <<"unknown format">>)

\* main's match on args.format
FormatOutput(fmt, m, order) ==
  CASE fmt = "json" -> output_json(m, order)
    [] fmt = "dotenv" -> output_dotenv(m, order)
    [] OTHER -> output_dotenv(m, order)

\* --------------------------------------------------------------- actions
Init ==
  /\ key_list \in KeyLists
  /\ format \in Formats
  /\ file \in Files
  /\ pc = "parse_config"
  /\ input = EmptyMap
  /\ idx = 0
  /\ map = EmptyMap
  /\ spawned = << >>
  /\ child = NoChild
  /\ resolved = << >>
  /\ err = None
  /\ stdout = << >>
  /\ exit_code = None

\* A main that reports the error and still returns Ok(()).
Abort_ExitZero(e) ==
  /\ err' = Some(e)
  /\ exit_code' = Some(0)
  /\ pc' = "exited"

\* main returns Err(e), or panics: the process exits non-zero.
Abort(e) ==
  /\ err' = Some(e)
  /\ exit_code' = Some(IF e.kind = "Panic" THEN 101 ELSE 1)
  /\ pc' = "exited"

\* let input = match parse_config(&input_path) { ... }
ParseConfig ==
  /\ pc = "parse_config"
  /\ LET r == parse_config(file)
     IN IF r.ok
        THEN /\ input' = r.value
             /\ pc' = "for_key"
             /\ UNCHANGED <<err, exit_code>>
        ELSE /\ Abort(r)
             /\ UNCHANGED input
  /\ UNCHANGED <<key_list, format, file, idx, map, spawned, child, resolved,
                 stdout>>

Segments == Split(key_list)
Key == Segments[idx + 1]

\* One iteration of the loop, once get_config_value has returned r.
Iterate(r) ==
  IF r.ok
  THEN /\ map' = Insert(map, Key, r.value)
       /\ resolved' = Append(resolved, r.value)
       /\ idx' = idx + 1
       /\ pc' = IF idx + 1 = Len(Segments) THEN "output" ELSE "for_key"
       /\ UNCHANGED <<err, exit_code>>
  ELSE /\ Abort(r)
       /\ UNCHANGED <<map, resolved, idx>>

\* A loop that skips the keys the mapping does not hold.
KeyNotFound_Skip ==
  /\ pc = "for_key"
  /\ Key \notin DOMAIN input
  /\ idx' = idx + 1
  /\ pc' = IF idx + 1 = Len(Segments) THEN "output" ELSE "for_key"
  /\ UNCHANGED <<key_list, format, file, input, map, spawned, child,
                 resolved, stdout, err, exit_code>>

\* input.get(key) is None
KeyNotFound ==
  /\ pc = "for_key"
  /\ Key \notin DOMAIN input
  /\ Abort(Err("KeyNotFound",
               <<"Key '">> \o Key \o <<"' not found in source config">>))
  /\ UNCHANGED <<key_list, format, file, input, idx, map, spawned, child,
                 resolved, stdout>>

\* The key's descriptor starts no process: a literal, or the unwrap panics.
ResolveInline ==
  /\ pc = "for_key"
  /\ Key \in DOMAIN input
  /\ input[Key].source = "Value" \/ ~input[Key].exec.some
  /\ Iterate(get_config_value(input[Key], NoChild))
  /\ UNCHANGED <<key_list, format, file, input, spawned, child, stdout>>

Argv(config) == <<config.exec.val, UnwrapOr(config.args, << >>)>>

\* cmd.output(): the child is launched (or not), runs to its end, and
\* get_config_value decides on what it wrote.
ResolveCommand ==
  /\ pc = "for_key"
  /\ Key \in DOMAIN input
  /\ input[Key].source = "Cmd" /\ input[Key].exec.some
  /\ \E c \in Children :
       /\ child' = c
       /\ spawned' = IF c.launched THEN Append(spawned, Argv(input[Key]))
                     ELSE spawned
       /\ Iterate(get_config_value(input[Key], c))
  /\ UNCHANGED <<key_list, format, file, input, stdout>>

\* cmd.output() where the child never exits: main waits for ever.
ChildHangs ==
  /\ pc = "for_key"
  /\ Key \in DOMAIN input
  /\ input[Key].source = "Cmd" /\ input[Key].exec.some
  /\ spawned' = Append(spawned, Argv(input[Key]))
  /\ pc' = "blocked"
  /\ UNCHANGED <<key_list, format, file, input, idx, map, child, resolved,
                 err, stdout, exit_code>>

\* let output = match ...; print!("{}", output); Ok(())
Output ==
  /\ pc = "output"
  /\ \E order \in Orders(map) :
       LET r == FormatOutput(format, map, order)
       IN IF r.ok
          THEN /\ stdout' = Append(stdout, r.value)
               /\ exit_code' = Some(0)
               /\ pc' = "exited"
               /\ UNCHANGED err
          ELSE /\ Abort(r)
               /\ UNCHANGED stdout
  /\ UNCHANGED <<key_list, format, file, input, idx, map, spawned, child,
                 resolved>>

Next ==
  \/ ParseConfig
  \/ KeyNotFound
  \/ ResolveInline
  \/ ResolveCommand
  \/ ChildHangs
  \/ Output

Spec == Init /\ [][Next]_vars

\* The run's one thread always takes its next step.
FairSpec == Spec /\ WF_vars(Next)

\* ------------------------------------------------- reading the state
Exited == pc = "exited"
Failed == Exited /\ err.some
Succeeded == Exited /\ ~err.some
\* The descriptor file was read and parsed: main is past parse_config.
Loaded ==
  /\ pc # "parse_config"
  /\ ~(Failed /\ err.val.kind \in {"IOError", "ParseError"})
SegmentSet == {Segments[i] : i \in 1..Len(Segments)}
AbsentAt == {i \in 1..Len(Segments) : Segments[i] \notin DOMAIN input}
FirstAbsent == CHOOSE i \in AbsentAt : \A j \in AbsentAt : i <= j
KeyNotFoundError(k) ==
  Err("KeyNotFound", <<"Key '">> \o k \o <<"' not found in source config">>)
LastOccurrence(k, n) ==
  CHOOSE i \in 1..n : Segments[i] = k /\ \A j \in (i + 1)..n : Segments[j] # k

\* Reading a JSON object of strings back (the inverse serde_json writes for).
RECURSIVE ReadString(_, _, _)
ReadString(s, i, acc) ==
  IF i > Len(s) THEN [ok |-> FALSE]
  ELSE IF s[i] = QUOTE THEN [ok |-> TRUE, val |-> acc, next |-> i + 1]
  ELSE IF s[i] = LF THEN [ok |-> FALSE]
  ELSE IF s[i] = BSLASH
  THEN IF i + 1 > Len(s) THEN [ok |-> FALSE]
       ELSE IF s[i + 1] = "n" THEN ReadString(s, i + 2, Append(acc, LF))
       ELSE IF s[i + 1] \in {QUOTE, BSLASH}
       THEN ReadString(s, i + 2, Append(acc, s[i + 1]))
       ELSE [ok |-> FALSE]
  ELSE ReadString(s, i + 1, Append(acc, s[i]))

RECURSIVE ReadFields(_, _, _)
ReadFields(s, i, acc) ==
  IF i + 1 > Len(s) \/ s[i] # QUOTE THEN [ok |-> FALSE]
  ELSE LET k == ReadString(s, i + 1, << >>)
       IN IF ~k.ok THEN [ok |-> FALSE]
          ELSE IF k.next + 1 > Len(s) \/ s[k.next] # ":" \/ s[k.next + 1] # QUOTE
          THEN [ok |-> FALSE]
          ELSE LET v == ReadString(s, k.next + 2, << >>)
               IN IF ~v.ok \/ v.next > Len(s) \/ k.val \in DOMAIN acc
                  THEN [ok |-> FALSE]
                  ELSE IF s[v.next] = COMMA
                  THEN ReadFields(s, v.next + 1, Insert(acc, k.val, v.val))
                  ELSE IF s[v.next] = "}" /\ v.next = Len(s)
                  THEN [ok |-> TRUE, val |-> Insert(acc, k.val, v.val)]
                  ELSE [ok |-> FALSE]

ParseJson(s) ==
  IF Len(s) < 2 \/ s[1] # "{" THEN [ok |-> FALSE]
  ELSE IF Len(s) = 2 /\ s[2] = "}" THEN [ok |-> TRUE, val |-> EmptyMap]
  ELSE ReadFields(s, 2, EmptyMap)

\* ---------------------------------------------------------------- claims

\* C1 as stated: whenever a run with a loaded mapping and an absent segment
\* has ended, it ended in KeyNotFound naming an absent segment, with nothing
\* on standard output.  (Stated for the mappings whose Command descriptors
\* all carry an executable: the claim fails on those already.)
WellFormed ==
  \A k \in DOMAIN input : input[k].source = "Cmd" => input[k].exec.some
C1_AbsentKeyAlwaysKeyNotFound ==
  (Exited /\ Loaded /\ WellFormed /\ AbsentAt # {}) =>
    /\ Failed
    /\ \E i \in AbsentAt : err.val = KeyNotFoundError(Segments[i])
    /\ stdout = << >>

\* C1 as amended: with an absent segment the loop never gets past the first one
\* and nothing is ever written; the run, if it ends, fails: in KeyNotFound
\* naming the first absent segment when every segment before it resolved, and
\* otherwise in the error of the earlier segment whose resolution failed.
C1_FirstAbsentKeyOrEarlierError ==
  (Loaded /\ AbsentAt # {}) =>
    /\ stdout = << >>
    /\ idx < FirstAbsent
    /\ pc # "output"
    /\ Exited =>
         /\ Failed
         /\ exit_code # Some(0)
         /\ idx = FirstAbsent - 1 =>
              err.val = KeyNotFoundError(Segments[FirstAbsent])
         /\ idx < FirstAbsent - 1 =>
              err.val.kind \in {"ExecError", "CommandError", "EncodingError", "Panic"}

C1_Witness ==
  /\ key_list = <<"a", COMMA, "b">>
  /\ Failed
  /\ idx = 1
  /\ resolved = << <<"h", "i">> >>
  /\ err.val = KeyNotFoundError(<<"b">>)
  /\ stdout = << >>

\* C2: a launched child that wrote anything to stderr ends the run in
\* CommandError carrying the (lossily decoded) stderr, whatever its exit code
\* and its stdout; its output is never taken as a value.
C2_StderrIsFatal ==
  (child.launched /\ child.stderr # << >>) =>
    /\ Failed
    /\ err.val = Err("CommandError",
                     <<"Error running command: ">> \o FromUtf8Lossy(child.stderr))
    /\ Len(resolved) = idx
    /\ stdout = << >>

C2_Witness ==
  /\ Failed
  /\ child.launched
  /\ child.stderr = <<"e", LF>>
  /\ child.stdout = <<"h", "i", LF>>
  /\ child.code = 0
  /\ err.val.kind = "CommandError"

\* C3: before the run ends nothing is written and no status is set; a run that
\* ended either failed (non-zero status, nothing written, the loop stopped at
\* the segment that failed) or succeeded (status 0, one write, holding the
\* serialized map of all the segments); after the end nothing happens.
C3_TwoOutcomes ==
  /\ ~Exited => (stdout = << >> /\ exit_code = None /\ ~err.some)
  /\ Exited => ~ENABLED Next
  /\ Failed =>
       /\ exit_code.some /\ exit_code.val # 0
       /\ stdout = << >>
       /\ idx < Len(Segments)
       /\ Len(resolved) = idx
  /\ Succeeded =>
       /\ exit_code = Some(0)
       /\ idx = Len(Segments)
       /\ Len(resolved) = Len(Segments)
       /\ DOMAIN map = SegmentSet
       /\ Len(stdout) = 1
       /\ \E o \in Orders(map) : stdout[1] = FormatOutput(format, map, o).value

C3_Witness ==
  /\ Failed
  /\ Len(Segments) = 2
  /\ idx = 1
  /\ err.val.kind = "EncodingError"
  /\ exit_code = Some(1)
  /\ stdout = << >>

\* C4 as stated: a file with a "cmd" entry that has no exec never gets past the
\* loader: the run ends in ParseError before any key is looked up.
C4_LoaderRejectsCmdWithoutExec ==
  ( /\ pc # "parse_config"
    /\ file.kind = "object"
    /\ \E k \in DOMAIN file.fields :
         file.fields[k].source = "cmd" /\ ~file.fields[k].exec.some ) =>
    /\ Failed
    /\ err.val.kind = "ParseError"
    /\ idx = 0

C6_UnknownFormatIsDotenv ==
  /\ (pc = "output" /\ format # "json") =>
       \A o \in Orders(map) :
         FormatOutput(format, map, o) = FormatOutput("dotenv", map, o)
  /\ (Exited /\ format # "json" /\ idx = Len(Segments)) =>
       /\ Succeeded
       /\ Len(stdout) = 1
       /\ \E o \in Orders(map) : stdout[1] = FormatOutput("dotenv", map, o).value

C6_Witness ==
  /\ Succeeded
  /\ format = "xml"
  /\ Cardinality(DOMAIN map) = 2
  /\ \E o \in Orders(map) : stdout[1] = output_dotenv(map, o).value

\* C7: the output of a successful json run reads back as an object whose keys
\* are the requested keys and whose values are their resolved strings.
C7_JsonRoundTrip ==
  (Succeeded /\ format = "json") =>
    /\ Len(stdout) = 1
    /\ LET p == ParseJson(stdout[1])
       IN /\ p.ok
          /\ DOMAIN p.val = SegmentSet
          /\ \A k \in SegmentSet :
               p.val[k] = resolved[LastOccurrence(k, Len(Segments))]

C7_Witness ==
  /\ Succeeded
  /\ format = "json"
  /\ map = (<<"a">> :> <<QUOTE, BSLASH>>) @@ (<< >> :> <<"h", "i", LF>>)
  /\ stdout[1][1] = "{"

\* C8: when the file holds only value-sourced keys no child is ever started,
\* every resolved value is the literal's value field (empty when absent), the
\* run ends in success or KeyNotFound, and it does end.
ValueOnly ==
  /\ file.kind = "object"
  /\ \A k \in DOMAIN file.fields : file.fields[k].source = "value"
C8_ValueOnlyTerminates ==
  /\ [](ValueOnly =>
          /\ spawned = << >>
          /\ pc # "blocked"
          /\ \A i \in 1..Len(resolved) :
               resolved[i] = IF file.fields[Segments[i]].value.some
                             THEN file.fields[Segments[i]].value.val
                             ELSE << >>
          /\ Failed => err.val.kind = "KeyNotFound")
  /\ (ValueOnly ~> Exited)

C8_Witness ==
  /\ ValueOnly
  /\ Succeeded
  /\ resolved = << << >>, <<"h", "i">> >>

\* C9: a launched child that wrote nothing to stderr and valid text to stdout
\* resolves to exactly that text, whatever its exit code; the run goes on, and
\* if it fails it fails on a later key.
IsCommand(i) ==
  input[Segments[i]].source = "Cmd" /\ input[Segments[i]].exec.some
C9_StdoutVerbatim ==
  (child.launched /\ child.stderr = << >> /\ ValidUtf8(child.stdout)) =>
    /\ \E j \in 1..idx :
         /\ IsCommand(j)
         /\ \A i \in (j + 1)..idx : ~IsCommand(i)
         /\ resolved[j] = child.stdout
    /\ err.some => err.val.kind \in {"KeyNotFound", "Panic"}

C9_Witness ==
  /\ Succeeded
  /\ child.launched
  /\ child.code = 1
  /\ child.stderr = << >>
  /\ child.stdout = <<"h", "i", LF>>
  /\ map = (<<"a">> :> <<"h", "i", LF>>)

\* C10: while the loop runs and after a success, every segment consumed was
\* resolved once (one child per Command segment), and the map holds one entry
\* per distinct segment, with the value of the segment's last occurrence.
C10_OncePerOccurrenceLastWins ==
  (pc \in {"for_key", "output"} \/ Succeeded) =>
    /\ Len(resolved) = idx
    /\ Len(spawned) = Cardinality({i \in 1..idx : IsCommand(i)})
    /\ DOMAIN map = {Segments[i] : i \in 1..idx}
    /\ Cardinality(DOMAIN map) = Cardinality({Segments[i] : i \in 1..idx})
    /\ \A k \in DOMAIN map : map[k] = resolved[LastOccurrence(k, idx)]

C10_Witness ==
  /\ Succeeded
  /\ key_list = <<"a", COMMA, "a">>
  /\ Len(spawned) = 2
  /\ resolved = << <<"h", "i", LF>>, <<QUOTE, BSLASH>> >>
  /\ map = (<<"a">> :> <<QUOTE, BSLASH>>)

====
